---- MODULE Spec2Model ----
(***************************************************************************)
(* Token-addressed streaming proxy of src/app.py: the SQLite link store,   *)
(* the Range parser, the GET /f/{token} handler `stream`, the ingestion    *)
(* insert `create_link` and the expiry sweeper `cleanup_loop`.             *)
(*                                                                         *)
(* Strings are sequences of symbols.  The word "bytes" is one symbol; all  *)
(* other symbols are single characters.  Python's None is the empty        *)
(* sequence for strings and rows, and the number None (= -1) for sizes.    *)
(***************************************************************************)
EXTENDS Integers, Sequences, FiniteSets, TLC

\* ------------------------------------------------------------------------
\* Bounds of the model
\* ------------------------------------------------------------------------
\* longest Range header enumerated by the parser specification, in symbols
MaxLen == 4
\* largest total_size enumerated by the parser specification
MaxTotal == 3
\* clock ticks per second: time.time() is a float, int(time.time()) drops
\* the ticks below the second
TicksPerSecond == 2
\* single ticks the clock may advance besides the jump of one TTL
MaxTime == 2

\* ------------------------------------------------------------------------
\* Configuration (src/app.py:23-43)
\* ------------------------------------------------------------------------
EXPIRY_HOURS == 48
CHUNK_SIZE == 262144
BOT_TOKEN == "SECRET"
TG_API_BASE == "https://api.telegram.org"
\* EXPIRY_HOURS * 3600, the time-to-live in seconds
TTL == EXPIRY_HOURS * 3600

\* Python None for Optional[int] values (file_size, total_size)
None == 0 - 1

\* ------------------------------------------------------------------------
\* Strings
\* ------------------------------------------------------------------------
Digits == {"0", "1", "2", "3", "4", "5", "6", "7", "8", "9"}

DigitVal(d) ==
    CASE d = "0" -> 0 [] d = "1" -> 1 [] d = "2" -> 2 [] d = "3" -> 3
      [] d = "4" -> 4 [] d = "5" -> 5 [] d = "6" -> 6 [] d = "7" -> 7
      [] d = "8" -> 8 [] d = "9" -> 9

\* symbols the enumerated headers are made of
Alphabet == {"bytes", "=", "-", "0", "1", ",", "x"}

\* s[from..] (1-based), the empty string when from > Len(s)
Drop(s, from) == SubSeq(s, from, Len(s))

\* s.find(c) + 1: position of the first c in s, 0 when there is none
IndexOf(s, c) ==
    IF \E i \in 1..Len(s) : s[i] = c
    THEN CHOOSE i \in 1..Len(s) : s[i] = c /\ \A j \in 1..(i - 1) : s[j] # c
    ELSE 0

\* s.startswith(p)
StartsWith(s, p) == Len(s) >= Len(p) /\ SubSeq(s, 1, Len(p)) = p

\* s.split(c, 1)[0] and s.split(c, 1)[1], for s containing c
SplitHead(s, c) == SubSeq(s, 1, IndexOf(s, c) - 1)
SplitTail(s, c) == Drop(s, IndexOf(s, c) + 1)

RECURSIVE DecVal(_)
\* value of a string of decimal digits
DecVal(s) ==
    IF s = << >> THEN 0
    ELSE DecVal(SubSeq(s, 1, Len(s) - 1)) * 10 + DigitVal(s[Len(s)])

\* int(s): an optional sign followed by one or more decimal digits;
\* ok = FALSE stands for the ValueError int() raises on anything else
PyInt(s) ==
    LET signed == s # << >> /\ s[1] \in {"+", "-"}
        body   == IF signed THEN Tail(s) ELSE s
        valid  == body # << >> /\ \A i \in 1..Len(body) : body[i] \in Digits
    IN  IF ~valid THEN [ok |-> FALSE, val |-> 0]
        ELSE [ok |-> TRUE,
              val |-> IF signed /\ s[1] = "-" THEN 0 - DecVal(body) ELSE DecVal(body)]

RECURSIVE DecStr(_)
\* str(n) for n >= 0
DecStr(n) ==
    LET d == CHOOSE c \in Digits : DigitVal(c) = n % 10
    IN  IF n < 10 THEN <<d>> ELSE DecStr(n \div 10) \o <<d>>

\* ------------------------------------------------------------------------
\* parse_range_header
\* ------------------------------------------------------------------------
\* raise ValueError(msg)
ValueError(msg) == [ok |-> FALSE, start |-> 0, end |-> 0, err |-> msg]

\* faulty variant of parse_range_header: the bound test `end > total_size`, which
\* lets a range end one byte past the object
parse_range_header_off_by_one(range_header, total_size) ==
    IF ~StartsWith(range_header, <<"bytes", "=">>) THEN ValueError("Invalid range unit")
    ELSE
      LET rng == SplitTail(range_header, "=") IN
      IF IndexOf(rng, "-") = 0 THEN ValueError("Invalid range format")
      ELSE
        LET s == PyInt(SplitHead(rng, "-"))
            e == PyInt(SplitTail(rng, "-"))
        IN
        IF SplitHead(rng, "-") # << >> /\ ~s.ok THEN ValueError("invalid literal for int()")
        ELSE IF SplitTail(rng, "-") # << >> /\ ~e.ok THEN ValueError("invalid literal for int()")
        ELSE
          LET start == IF SplitHead(rng, "-") # << >> THEN s.val ELSE 0
              end   == IF SplitTail(rng, "-") # << >> THEN e.val ELSE total_size - 1
          IN
          IF start < 0 \/ end < start \/ end > total_size
          THEN ValueError("Range out of bounds")
          ELSE [ok |-> TRUE, start |-> start, end |-> end, err |-> ""]

parse_range_header(range_header, total_size) ==
    IF range_header = << >> THEN ValueError("No Range header")
    ELSE IF ~StartsWith(range_header, <<"bytes", "=">>) THEN ValueError("Invalid range unit")
    ELSE
      LET rng == SplitTail(range_header, "=") IN
      IF IndexOf(rng, "-") = 0 THEN ValueError("Invalid range format")
      ELSE
        LET start_str == SplitHead(rng, "-")
            end_str   == SplitTail(rng, "-")
            s         == PyInt(start_str)
            e         == PyInt(end_str)
        IN
        IF start_str # << >> /\ ~s.ok THEN ValueError("invalid literal for int()")
        ELSE IF end_str # << >> /\ ~e.ok THEN ValueError("invalid literal for int()")
        ELSE
          LET start == IF start_str # << >> THEN s.val ELSE 0
              end   == IF end_str # << >> THEN e.val ELSE total_size - 1
          IN
          IF start < 0 \/ end < start \/ end >= total_size
          THEN ValueError("Range out of bounds")
          ELSE [ok |-> TRUE, start |-> start, end |-> end, err |-> ""]

\* ------------------------------------------------------------------------
\* State
\* ------------------------------------------------------------------------
VARIABLES
    now,        \* time.time(), in ticks
    links,      \* table links as the connection db shows it: token -> the
                \* rows under the token, << >> (no row) or <<row>>
    committed,  \* table links as last committed: what a rollback restores
    req,        \* per worker: the locals of the running call of stream()
    sweeper,    \* cleanup_loop: "start" before the first round, then the
                \* position in the round ("executed", "raised") or its end
                \* ("ran", "failed"), "slept" after time.sleep
    ingest,     \* create_link: [pc, outcome, token] of the running or the
                \* last call; token is the token returned, "" when it raised
    inserted,   \* history: every <<token, created_at, file_id>> ever inserted
    p_header,   \* parser specification: the header under test
    p_total,    \*                       the total size under test
    p_out       \*                       [pc, res]: the result of the call

vars == <<now, links, committed, req, sweeper, ingest, inserted, p_header, p_total, p_out>>

Workers == {"w1", "w2"}
\* the tokens clients ask for, and those among them secrets.token_urlsafe
\* draws in Spec and SpecRace, where "t2" is a token that was never issued
\* (SpecStore draws both)
Tokens  == {"t1", "t2"}
Issued  == {"t1"}

\* the files the ingestion source supplies (handle_message): file_id, the
\* file_path get_file answers, mime_type, file_name and file_size ("" and
\* None when the attribute is missing)
Uploads ==
    { [file_id |-> "f0", file_path |-> "p0", mime |-> "",          file_name |-> "",      file_size |-> 0],
      [file_id |-> "f1", file_path |-> "p1", mime |-> "",          file_name |-> "",      file_size |-> None],
      [file_id |-> "f2", file_path |-> "p2", mime |-> "video/mp4", file_name |-> "v.mp4", file_size |-> 2] }

\* the bytes the upstream object store holds under a file_path
Content(file_path) ==
    CASE file_path = "p0" -> << >>
      [] file_path = "p1" -> <<"a", "b">>
      [] file_path = "p2" -> <<"c", "d">>

\* the Range headers clients send: none, a satisfiable range, a range past
\* the end, an open range, a suffix range, another unit, no separator, a
\* non-numeric bound, two ranges
RangeHeaders ==
    { << >>,
      <<"bytes", "=", "0", "-", "0">>,
      <<"bytes", "=", "1", "-", "9">>,
      <<"bytes", "=", "1", "-">>,
      <<"bytes", "=", "-", "1">>,
      <<"items", "=", "0", "-", "1">>,
      <<"bytes", "=", "1">>,
      <<"bytes", "=", "a", "-", "1">>,
      <<"bytes", "=", "0", "-", "0", ",", "1", "-", "1">> }

\* ------------------------------------------------------------------------
\* Database (SQLite)
\* ------------------------------------------------------------------------
\* int(time.time())
IntTime(t) == t \div TicksPerSecond

\* SELECT * FROM links WHERE token = ?  ->  cur.fetchone()
fetch_link(db, token) == db[token]

\* faulty variant of delete_link: the DELETE is not carried out
delete_link_skipped(db, token) == db

\* DELETE FROM links WHERE token = ?
delete_link(db, token) == [db EXCEPT ![token] = << >>]

\* cutoff = int(time.time()) - EXPIRY_HOURS * 3600
Cutoff(t) == IntTime(t) - TTL

\* faulty variant of cleanup_expired_links: created_at <= ?
cleanup_expired_links_inclusive(db, cutoff) ==
    [k \in Tokens |->
        IF db[k] # << >> /\ db[k][1].created_at <= cutoff THEN << >> ELSE db[k]]

\* DELETE FROM links WHERE created_at < ?
cleanup_expired_links(db, cutoff) ==
    [k \in Tokens |->
        IF db[k] # << >> /\ db[k][1].created_at < cutoff THEN << >> ELSE db[k]]

\* faulty variant of NewRow: the INSERT leaves out file_size
NewRowNoSize(token, u, t) ==
    [token |-> token, file_id |-> u.file_id, file_path |-> u.file_path,
     mime |-> u.mime, file_name |-> u.file_name, file_size |-> None,
     created_at |-> IntTime(t)]

\* the row create_link inserts
NewRow(token, u, t) ==
    [token |-> token, file_id |-> u.file_id, file_path |-> u.file_path,
     mime |-> u.mime, file_name |-> u.file_name, file_size |-> u.file_size,
     created_at |-> IntTime(t)]

\* time.time() - created_at > EXPIRY_HOURS * 3600
IsExpired(t, created_at) ==
    t - created_at * TicksPerSecond > TTL * TicksPerSecond

\* <<token, created_at>> is a row of the table
InStore(k, c) == links[k] # << >> /\ links[k][1].created_at = c

\* ------------------------------------------------------------------------
\* FastAPI app (proxy)
\* ------------------------------------------------------------------------
\* f"{TG_API_BASE}/file/bot{BOT_TOKEN}/{file_path}"
telegram_file_url(file_path) == <<TG_API_BASE, "/file/bot", BOT_TOKEN, "/", file_path>>

\* no HEAD request was made
NoHead == [raised |-> FALSE, ok |-> FALSE, cl |-> <<"-">>]

\* a worker that serves no request; detail is the detail of the
\* HTTPException raised, log the lines the request wrote to the logger at
\* the level of line 48 (INFO and above)
IdleReq ==
    [pc |-> "idle", token |-> "", range_header |-> << >>, row |-> << >>,
     late |-> FALSE, seen |-> {},
     total_size |-> None, probes |-> 0, head |-> NoHead,
     start |-> None, end |-> None,
     fwd_range |-> << >>, status_code |-> 0,
     content_length |-> << >>, content_range |-> << >>,
     content_type |-> "", content_disposition |-> << >>,
     gets |-> 0, up_status |-> 0, up_body |-> << >>, conn |-> "none",
     sent |-> << >>, relay |-> "none", result |-> 0,
     detail |-> "", log |-> {}]

\* the answers of requests.head(upstream_url, timeout=15): an exception
\* (connection error, timeout), or [ok, cl] with cl the Content-Length
\* header ("" when the response carries none)
HeadAnswers(content) ==
    { [raised |-> TRUE,  ok |-> FALSE, cl |-> << >>],
      [raised |-> FALSE, ok |-> FALSE, cl |-> << >>],
      [raised |-> FALSE, ok |-> TRUE,  cl |-> << >>],
      [raised |-> FALSE, ok |-> TRUE,  cl |-> <<"x">>],
      [raised |-> FALSE, ok |-> TRUE,  cl |-> DecStr(Len(content))] }

\* faulty variant of ProbedSize: a failed probe leaves 0 instead of None
ProbedSizeZero(h) ==
    IF h.raised THEN 0
    ELSE IF h.ok /\ h.cl # << >>
         THEN IF PyInt(h.cl).ok THEN PyInt(h.cl).val ELSE 0
         ELSE 0

\* lines 157-168: total_size after the probe answered h
ProbedSize(h) ==
    IF h.raised THEN None
    ELSE IF h.ok /\ h.cl # << >>
         THEN IF PyInt(h.cl).ok THEN PyInt(h.cl).val ELSE None
         ELSE None

\* bytes first..last (0-based, inclusive) of content
Slice(content, first, last) == SubSeq(content, first + 1, last + 1)

\* the responses of the upstream to GET with the forwarded headers: the
\* whole object with 200 (a server may ignore Range), the requested part
\* with 206 when a Range was sent, or a status without a body
UpstreamStatuses == {204, 302, 404, 500}

GetAnswers(content, fwd_range) ==
    { [status |-> 200, body |-> content] }
    \cup (IF fwd_range = << >> THEN {}
          ELSE LET rng == SplitTail(fwd_range, "=")
                   s   == PyInt(SplitHead(rng, "-")).val
                   e   == PyInt(SplitTail(rng, "-")).val
               IN  { [status |-> 206, body |-> Slice(content, s, e)] })
    \cup { [status |-> st, body |-> << >>] : st \in UpstreamStatuses }

\* faulty variant of UpstreamErrorStatus: every upstream status is passed on
UpstreamErrorStatusAny(st) == st

\* line 196: the status of the HTTPException for an upstream status
UpstreamErrorStatus(st) == IF 400 <= st /\ st < 600 THEN st ELSE 502

\* t is past the expiry instant of a row created at created_at
PastExpiry(t, created_at) == t > (created_at + TTL) * TicksPerSecond

\* faulty variant of Lookup: a lookup that finds a row renews its created_at
LookupRenews(w, token, range_header) ==
    /\ req[w].pc = "idle"
    /\ LET row == fetch_link(links, token)
           r0  == [IdleReq EXCEPT !.token = token, !.range_header = range_header, !.row = row]
       IN  /\ req' = [req EXCEPT ![w] =
                IF row = << >>
                THEN [r0 EXCEPT !.pc = "done", !.result = 404,
                                !.detail = "Link not found",
                                !.seen = {p[2] : p \in {q \in inserted : q[1] = token}}]
                ELSE [r0 EXCEPT !.pc = "check",
                                !.late = PastExpiry(now, row[1].created_at)]]
           /\ links' = IF row = << >> THEN links
                       ELSE [links EXCEPT ![token] = <<[row[1] EXCEPT !.created_at = IntTime(now)]>>]
           /\ committed' = links'
    /\ UNCHANGED <<now, sweeper, ingest, inserted, p_header, p_total, p_out>>

\* lines 140-142: row = fetch_link(token); no row -> 404.
\* History: late = the row found is past its expiry instant when the request
\* starts; seen = the created_at of every row inserted under the token so
\* far, kept when no row is found.
Lookup(w, token, range_header) ==
    /\ req[w].pc = "idle"
    /\ LET row == fetch_link(links, token)
           r0  == [IdleReq EXCEPT !.token = token, !.range_header = range_header, !.row = row]
       IN  req' = [req EXCEPT ![w] =
              IF row = << >>
              THEN [r0 EXCEPT !.pc = "done", !.result = 404,
                              !.detail = "Link not found",
                              !.seen = {p[2] : p \in {q \in inserted : q[1] = token}}]
              ELSE [r0 EXCEPT !.pc = "check",
                              !.late = PastExpiry(now, row[1].created_at)]]
    /\ UNCHANGED <<now, links, committed, sweeper, ingest, inserted, p_header, p_total, p_out>>

\* lines 144-145: the expiry check
CheckExpiry(w) ==
    /\ req[w].pc = "check"
    /\ req' = [req EXCEPT ![w].pc = IF IsExpired(now, req[w].row[1].created_at)
                                    THEN "expired" ELSE "resolve"]
    /\ UNCHANGED <<now, links, committed, sweeper, ingest, inserted, p_header, p_total, p_out>>

\* lines 147-148: delete_link(token), which logs the deletion (line 94); 410
DeleteExpired(w) ==
    /\ req[w].pc = "expired"
    /\ links' = delete_link(links, req[w].token)
    /\ committed' = links'
    /\ req' = [req EXCEPT ![w].pc = "done", ![w].result = 410,
                          ![w].detail = "Link expired",
                          ![w].log = @ \cup {<<"Deleted token ", req[w].token>>}]
    /\ UNCHANGED <<now, sweeper, ingest, inserted, p_header, p_total, p_out>>

\* faulty variant of NeedsProbe: `if not total_size`, which also takes 0 for unknown
NeedsProbeFalsy(reported_size) == reported_size = None \/ reported_size = 0

\* line 158: if total_size is None
NeedsProbe(reported_size) == reported_size = None

\* lines 150-168: total_size = reported_size, probed with HEAD when None
ResolveSize(w) ==
    /\ req[w].pc = "resolve"
    /\ LET row == req[w].row[1] IN
       IF ~NeedsProbe(row.file_size)
       THEN req' = [req EXCEPT ![w].pc = "range", ![w].total_size = row.file_size]
       ELSE \E h \in HeadAnswers(Content(row.file_path)) :
              req' = [req EXCEPT ![w].pc = "range", ![w].probes = @ + 1, ![w].head = h,
                                 ![w].total_size = ProbedSize(h)]
    /\ UNCHANGED <<now, links, committed, sweeper, ingest, inserted, p_header, p_total, p_out>>

\* line 185: f"bytes={start}-{end}"
ForwardRange(start, end) == <<"bytes", "=">> \o DecStr(start) \o <<"-">> \o DecStr(end)

\* line 187: f"bytes {start}-{end}/{total_size}"
ContentRange(start, end, total_size) ==
    <<"bytes", " ">> \o DecStr(start) \o <<"-">> \o DecStr(end) \o <<"/">> \o DecStr(total_size)

\* faulty variant of PartialLength: the length of an inclusive range taken as end - start
PartialLengthExclusive(start, end) == DecStr(end - start)

\* line 188: str(end - start + 1)
PartialLength(start, end) == DecStr(end - start + 1)

\* line 151 and 174: mime = row["mime"] or "application/octet-stream"
ContentType(mime) == IF mime = "" THEN "application/octet-stream" ELSE mime

\* lines 152 and 176: f'inline; filename="{file_name}"', file_name or "file"
ContentDisposition(file_name) ==
    <<"inline; filename=\"", IF file_name = "" THEN "file" ELSE file_name, "\"">>

\* lines 170-191: the status and the headers of the response, the Range
\* header of the upstream request; ValueError -> 416
EvalRange(w) ==
    /\ req[w].pc = "range"
    /\ LET r == req[w]
           p == parse_range_header(r.range_header, r.total_size)
       IN
       IF r.range_header # << >> /\ r.total_size # None
       THEN IF ~p.ok
            THEN req' = [req EXCEPT ![w].pc = "done", ![w].result = 416,
                                    ![w].detail = "Invalid Range"]
            ELSE req' = [req EXCEPT
                   ![w].pc = "fetch",
                   ![w].content_type = ContentType(r.row[1].mime),
                   ![w].content_disposition = ContentDisposition(r.row[1].file_name),
                   ![w].start = p.start,
                   ![w].end = p.end,
                   ![w].fwd_range = ForwardRange(p.start, p.end),
                   ![w].status_code = 206,
                   ![w].content_range = ContentRange(p.start, p.end, r.total_size),
                   ![w].content_length = PartialLength(p.start, p.end)]
       ELSE req' = [req EXCEPT
                   ![w].pc = "fetch",
                   ![w].content_type = ContentType(r.row[1].mime),
                   ![w].content_disposition = ContentDisposition(r.row[1].file_name),
                   ![w].status_code = 200,
                   ![w].content_length = IF r.total_size # None THEN DecStr(r.total_size) ELSE << >>]
    /\ UNCHANGED <<now, links, committed, sweeper, ingest, inserted, p_header, p_total, p_out>>

\* line 195: logger.warning("Upstream status %s for url %s", ...)
UpstreamWarning(st, upstream_url) ==
    <<"Upstream status ">> \o DecStr(st) \o <<" for url ">> \o upstream_url

\* lines 193-196 and 206: requests.get(..., stream=True) answers; a status
\* other than 200 and 206 -> the warning and the HTTPException, else the
\* StreamingResponse
UpstreamGet(w) ==
    /\ req[w].pc = "fetch"
    /\ \E a \in GetAnswers(Content(req[w].row[1].file_path), req[w].fwd_range) :
         req' = [req EXCEPT
            ![w].log = IF a.status \in {200, 206} THEN @
                       ELSE @ \cup {UpstreamWarning(a.status,
                                       telegram_file_url(req[w].row[1].file_path))},
            ![w].detail = IF a.status \in {200, 206} THEN @ ELSE "Upstream error",
            ![w].gets = @ + 1,
            ![w].conn = "open",
            ![w].up_status = a.status,
            ![w].up_body = a.body,
            ![w].pc = IF a.status \in {200, 206} THEN "relay" ELSE "done",
            ![w].relay = IF a.status \in {200, 206} THEN "streaming" ELSE "none",
            ![w].result = IF a.status \in {200, 206} THEN req[w].status_code
                          ELSE UpstreamErrorStatus(a.status)]
    /\ UNCHANGED <<now, links, committed, sweeper, ingest, inserted, p_header, p_total, p_out>>

\* line 193: requests.get raises (connection error, timeout); nothing in
\* stream() catches it and the framework answers 500
UpstreamGetRaises(w) ==
    /\ req[w].pc = "fetch"
    /\ req' = [req EXCEPT ![w].gets = @ + 1, ![w].pc = "done", ![w].result = 500]
    /\ UNCHANGED <<now, links, committed, sweeper, ingest, inserted, p_header, p_total, p_out>>

Min(a, b) == IF a < b THEN a ELSE b

\* lines 200-202: one chunk of at most CHUNK_SIZE bytes is read and yielded
RelayChunk(w) ==
    /\ req[w].pc = "relay"
    /\ req[w].up_body # << >>
    /\ \E n \in 1..Min(CHUNK_SIZE, Len(req[w].up_body)) :
         req' = [req EXCEPT ![w].sent = @ \o SubSeq(req[w].up_body, 1, n),
                            ![w].up_body = Drop(@, n + 1)]
    /\ UNCHANGED <<now, links, committed, sweeper, ingest, inserted, p_header, p_total, p_out>>

\* lines 200-204: iter_content is exhausted; finally: upstream.close()
RelayEnd(w) ==
    /\ req[w].pc = "relay"
    /\ req[w].up_body = << >>
    /\ req' = [req EXCEPT ![w].pc = "done", ![w].relay = "complete", ![w].conn = "closed"]
    /\ UNCHANGED <<now, links, committed, sweeper, ingest, inserted, p_header, p_total, p_out>>

\* lines 199-204: the generator is closed by a client disconnect, or
\* iter_content raises on an upstream failure; finally: upstream.close()
RelayAbort(w) ==
    /\ req[w].pc = "relay"
    /\ req[w].up_body # << >>
    /\ req' = [req EXCEPT ![w].pc = "done", ![w].relay = "aborted", ![w].conn = "closed"]
    /\ UNCHANGED <<now, links, committed, sweeper, ingest, inserted, p_header, p_total, p_out>>

\* lines 198-206: the response is dropped before the first next() of the
\* generator (the client is gone before the body is sent): the try block
\* is never entered, so its finally does not run
RelayDropped(w) ==
    /\ req[w].pc = "relay"
    /\ req[w].sent = << >>
    /\ req' = [req EXCEPT ![w].pc = "done", ![w].relay = "dropped"]
    /\ UNCHANGED <<now, links, committed, sweeper, ingest, inserted, p_header, p_total, p_out>>

\* the worker takes the next request
Finish(w) ==
    /\ req[w].pc = "done"
    /\ req' = [req EXCEPT ![w] = IdleReq]
    /\ UNCHANGED <<now, links, committed, sweeper, ingest, inserted, p_header, p_total, p_out>>

\* ------------------------------------------------------------------------
\* Ingestion, sweeper, clock
\* ------------------------------------------------------------------------
\* lines 76-85: token = secrets.token_urlsafe(16); INSERT; the PRIMARY KEY
\* constraint raises sqlite3.IntegrityError for a token that has a row
create_link(token, u) ==
    /\ ingest.pc = "idle"
    /\ IF links[token] # << >>
       THEN /\ ingest' = [pc |-> "idle", outcome |-> "IntegrityError", token |-> ""]
            /\ UNCHANGED <<links, committed, inserted>>
       ELSE /\ links' = [links EXCEPT ![token] = @ \o <<NewRow(token, u, now)>>]
            /\ committed' = links'
            /\ inserted' = inserted \cup {<<token, IntTime(now), u.file_id>>}
            /\ ingest' = [pc |-> "idle", outcome |-> "ok", token |-> token]
    /\ UNCHANGED <<now, req, sweeper, p_header, p_total, p_out>>

\* lines 102-108: one round of cleanup_loop, cleanup_expired_links() and
\* the sleep that follows it
CleanupRound ==
    /\ sweeper \in {"start", "ran"}
    /\ links' = cleanup_expired_links(links, Cutoff(now))
    /\ committed' = links'
    /\ sweeper' = "ran"
    /\ UNCHANGED <<now, req, ingest, inserted, p_header, p_total, p_out>>

\* the clock advances by one tick, at most MaxTime times in a row, or by
\* one TTL, once
Tick ==
    /\ \E d \in {1, TTL * TicksPerSecond} :
         /\ d = 1 => now % (TTL * TicksPerSecond) < MaxTime
         /\ d # 1 => now < TTL * TicksPerSecond
         /\ now' = now + d
    /\ UNCHANGED <<links, committed, req, sweeper, ingest, inserted, p_header, p_total, p_out>>

\* ------------------------------------------------------------------------
\* Specification of the service
\* ------------------------------------------------------------------------
NoCall == [pc |-> "idle", res |-> ValueError("")]

\* create_link was not called yet
NoIngest == [pc |-> "idle", outcome |-> "none", token |-> ""]

Init ==
    /\ now = 0
    /\ links = [k \in Tokens |-> << >>]
    /\ committed = [k \in Tokens |-> << >>]
    /\ req = [w \in Workers |-> IdleReq]
    /\ sweeper = "start"
    /\ ingest = NoIngest
    /\ inserted = {}
    /\ p_header = << >>
    /\ p_total = 0
    /\ p_out = NoCall

\* faulty variant of Steps: the size is probed before the expiry check
StepsProbeFirst(w) ==
    \/ CheckExpiry(w)
    \/ DeleteExpired(w)
    \/ ResolveSize(w)
    \/ EvalRange(w)
    \/ UpstreamGet(w)
    \/ UpstreamGetRaises(w)
    \/ RelayChunk(w)
    \/ RelayEnd(w)
    \/ RelayAbort(w)
    \/ RelayDropped(w)
    \/ Finish(w)
    \/ /\ req[w].pc = "check"
       /\ req[w].probes = 0
       /\ req' = [req EXCEPT ![w].probes = 1]
       /\ UNCHANGED <<now, links, committed, sweeper, ingest, inserted, p_header, p_total, p_out>>

\* the steps of stream() after the lookup, and the worker's return
Steps(w) ==
    \/ CheckExpiry(w)
    \/ DeleteExpired(w)
    \/ ResolveSize(w)
    \/ EvalRange(w)
    \/ UpstreamGet(w)
    \/ UpstreamGetRaises(w)
    \/ RelayChunk(w)
    \/ RelayEnd(w)
    \/ RelayAbort(w)
    \/ RelayDropped(w)
    \/ Finish(w)

\* The service with one request in flight at a time: every upload, every
\* Range header.
Next ==
    \/ \E token \in Tokens, h \in RangeHeaders : Lookup("w1", token, h)
    \/ Steps("w1")
    \/ \E token \in Issued, u \in Uploads : create_link(token, u)
    \/ CleanupRound
    \/ Tick

Spec == Init /\ [][Next]_vars

\* ------------------------------------------------------------------------
\* Specification of the service under concurrent requests: two workers
\* race on the store; the files have a declared size and the clients send
\* no Range header or a satisfiable one.
\* ------------------------------------------------------------------------
RaceUploads == {u \in Uploads : u.file_id = "f2"}

RaceHeaders == { << >>, <<"bytes", "=", "0", "-", "0">> }

NextRace ==
    \/ \E w \in Workers, token \in Tokens, h \in RaceHeaders : Lookup(w, token, h)
    \/ \E w \in Workers : Steps(w)
    \/ \E token \in Issued, u \in RaceUploads : create_link(token, u)
    \/ CleanupRound
    \/ Tick

SpecRace == Init /\ [][NextRace]_vars

\* ------------------------------------------------------------------------
\* The store statement by statement. db is one sqlite3 connection shared by
\* the ingestion, the request threads and the sweeper thread (line 55,
\* check_same_thread=False; line 268): a statement opens the connection's
\* transaction if none is open, `with db:` commits when its block ends and
\* rolls back when it raises, and both act on the connection, that is, on
\* the statements of every thread executed since the last commit.
\* ------------------------------------------------------------------------
\* lines 77-83: the token is drawn and the INSERT is executed; a token that
\* has a row raises sqlite3.IntegrityError
InsertExecute(token, u) ==
    /\ ingest.pc = "idle"
    /\ IF links[token] # << >>
       THEN /\ ingest' = [pc |-> "raised", outcome |-> "none", token |-> token]
            /\ UNCHANGED <<links, inserted>>
       ELSE /\ links' = [links EXCEPT ![token] = @ \o <<NewRow(token, u, now)>>]
            /\ inserted' = inserted \cup {<<token, IntTime(now), u.file_id>>}
            /\ ingest' = [pc |-> "executed", outcome |-> "none", token |-> token]
    /\ UNCHANGED <<now, committed, req, sweeper, p_header, p_total, p_out>>

\* lines 79 and 84-85: `with db:` commits; the token is returned
InsertCommit ==
    /\ ingest.pc = "executed"
    /\ committed' = links
    /\ ingest' = [pc |-> "idle", outcome |-> "ok", token |-> ingest.token]
    /\ UNCHANGED <<now, links, req, sweeper, inserted, p_header, p_total, p_out>>

\* line 79: `with db:` rolls back and the IntegrityError leaves create_link
InsertRollback ==
    /\ ingest.pc = "raised"
    /\ links' = committed
    /\ ingest' = [pc |-> "idle", outcome |-> "IntegrityError", token |-> ""]
    /\ UNCHANGED <<now, committed, req, sweeper, inserted, p_header, p_total, p_out>>

\* lines 147 and 92-93: delete_link executes the DELETE
DeleteExecute(w) ==
    /\ req[w].pc = "expired"
    /\ links' = delete_link(links, req[w].token)
    /\ req' = [req EXCEPT ![w].pc = "deleting"]
    /\ UNCHANGED <<now, committed, sweeper, ingest, inserted, p_header, p_total, p_out>>

\* lines 92-94 and 148: `with db:` commits, the deletion is logged; 410
DeleteCommit(w) ==
    /\ req[w].pc = "deleting"
    /\ committed' = links
    /\ req' = [req EXCEPT ![w].pc = "done", ![w].result = 410,
                          ![w].detail = "Link expired",
                          ![w].log = @ \cup {<<"Deleted token ", req[w].token>>}]
    /\ UNCHANGED <<now, links, sweeper, ingest, inserted, p_header, p_total, p_out>>

\* lines 103-105 and 97-99: a round begins, the DELETE of the sweep is
\* executed
SweepExecute ==
    /\ sweeper \in {"start", "slept"}
    /\ links' = cleanup_expired_links(links, Cutoff(now))
    /\ sweeper' = "executed"
    /\ UNCHANGED <<now, committed, req, ingest, inserted, p_header, p_total, p_out>>

\* line 99: the DELETE of the sweep raises (sqlite3.OperationalError: the
\* disk is full, an I/O error) and deletes nothing
SweepRaises ==
    /\ sweeper \in {"start", "slept"}
    /\ sweeper' = "raised"
    /\ UNCHANGED <<now, links, committed, req, ingest, inserted, p_header, p_total, p_out>>

\* lines 98-100: `with db:` commits
SweepCommit ==
    /\ sweeper = "executed"
    /\ committed' = links
    /\ sweeper' = "ran"
    /\ UNCHANGED <<now, links, req, ingest, inserted, p_header, p_total, p_out>>

\* lines 98 and 106-107: `with db:` rolls back, the exception is caught
\* and logged
SweepRollback ==
    /\ sweeper = "raised"
    /\ links' = committed
    /\ sweeper' = "failed"
    /\ UNCHANGED <<now, committed, req, ingest, inserted, p_header, p_total, p_out>>

\* line 108: time.sleep(1800) returns
SweepSleep ==
    /\ sweeper \in {"ran", "failed"}
    /\ sweeper' = "slept"
    /\ UNCHANGED <<now, links, committed, req, ingest, inserted, p_header, p_total, p_out>>

\* one round of cleanup_loop
Sweeper == SweepExecute \/ SweepRaises \/ SweepCommit \/ SweepRollback \/ SweepSleep

\* the steps of stream() with delete_link statement by statement
StoreSteps(w) ==
    \/ CheckExpiry(w)
    \/ DeleteExecute(w)
    \/ DeleteCommit(w)
    \/ ResolveSize(w)
    \/ EvalRange(w)
    \/ UpstreamGet(w)
    \/ UpstreamGetRaises(w)
    \/ RelayChunk(w)
    \/ RelayEnd(w)
    \/ RelayAbort(w)
    \/ RelayDropped(w)
    \/ Finish(w)

\* The store under the three kinds of thread: one request at a time for a
\* file of declared size without a Range header, the ingestion drawing
\* either token, the sweeper.
StoreHeaders == { << >> }

NextStore ==
    \/ \E token \in Tokens, h \in StoreHeaders : Lookup("w1", token, h)
    \/ StoreSteps("w1")
    \/ \E token \in Tokens, u \in RaceUploads : InsertExecute(token, u)
    \/ InsertCommit
    \/ InsertRollback
    \/ Sweeper
    \/ Tick

SpecStore == Init /\ [][NextStore]_vars

\* cleanup_loop runs in a thread of its own (line 268): its next step is
\* taken eventually
SpecStoreFair == SpecStore /\ WF_vars(Sweeper)

\* ------------------------------------------------------------------------
\* Specification of the Range parser: one call of parse_range_header on
\* every header of at most MaxLen symbols, and on the headers the clients
\* of the service send, with every total_size up to MaxTotal
\* ------------------------------------------------------------------------
Headers == UNION {[1..n -> Alphabet] : n \in 0..MaxLen} \cup RangeHeaders

InitParse ==
    /\ now = 0
    /\ links = [k \in Tokens |-> << >>]
    /\ committed = [k \in Tokens |-> << >>]
    /\ req = [w \in Workers |-> IdleReq]
    /\ sweeper = "start"
    /\ ingest = NoIngest
    /\ inserted = {}
    /\ p_header \in Headers
    /\ p_total \in 0..MaxTotal
    /\ p_out = NoCall

ParseCall ==
    /\ p_out.pc = "idle"
    /\ p_out' = [pc |-> "returned", res |-> parse_range_header(p_header, p_total)]
    /\ UNCHANGED <<now, links, committed, req, sweeper, ingest, inserted, p_header, p_total>>

NextParse == ParseCall

SpecParse == InitParse /\ [][NextParse]_vars

\* ------------------------------------------------------------------------
\* Properties of the Range parser (SpecParse)
\* ------------------------------------------------------------------------
\* s is a string of one or more decimal digits
IsDigitStr(s) == s # << >> /\ \A i \in 1..Len(s) : s[i] \in Digits

RECURSIVE Pow10(_)
Pow10(n) == IF n = 0 THEN 1 ELSE 10 * Pow10(n - 1)

RECURSIVE Weighted(_, _)
\* the number a digit string denotes, from position i on
Weighted(s, i) ==
    IF i > Len(s) THEN 0 ELSE DigitVal(s[i]) * Pow10(Len(s) - i) + Weighted(s, i + 1)

\* s is a bound of a range: omitted, or an integer with an optional sign
IsBound(s) ==
    \/ s = << >>
    \/ IsDigitStr(s)
    \/ Len(s) >= 2 /\ s[1] \in {"+", "-"} /\ IsDigitStr(Tail(s))

\* the value of a bound, default when it is omitted
BoundVal(s, default) ==
    IF s = << >> THEN default
    ELSE IF s[1] = "-" THEN 0 - Weighted(Tail(s), 1)
    ELSE IF s[1] = "+" THEN Weighted(Tail(s), 1)
    ELSE Weighted(s, 1)

\* the positions of h at which the separator of bytes=<start>-<end> stands
Separators(h) ==
    {i \in 3..Len(h) : h[i] = "-" /\ \A j \in 3..(i - 1) : h[j] # "-"}

\* h is bytes=<start>-<end> with integer or omitted bounds
WellFormed(h) ==
    /\ Len(h) >= 3 /\ h[1] = "bytes" /\ h[2] = "="
    /\ \E i \in Separators(h) :
         IsBound(SubSeq(h, 3, i - 1)) /\ IsBound(SubSeq(h, i + 1, Len(h)))

\* the bounds a well-formed h denotes for an object of total bytes
BoundsOf(h, total) ==
    LET i == CHOOSE i \in Separators(h) : TRUE
    IN  <<BoundVal(SubSeq(h, 3, i - 1), 0), BoundVal(SubSeq(h, i + 1, Len(h)), total - 1)>>

\* the bounds are inside an object of total bytes
InBounds(b, total) == 0 <= b[1] /\ b[1] <= b[2] /\ b[2] < total

\* h is the suffix form bytes=-N
IsSuffix(h) == Len(h) >= 4 /\ SubSeq(h, 1, 3) = <<"bytes", "=", "-">> /\ IsDigitStr(Drop(h, 4))

\* C5: for a suffix range bytes=-N with 0 < N <= totalSize the parser
\* returns the last N bytes, (totalSize - N, totalSize - 1).
C5_SuffixRange ==
    (p_out.pc = "returned" /\ IsSuffix(p_header))
        => LET n == Weighted(Drop(p_header, 4), 1) IN
           (0 < n /\ n <= p_total)
               => /\ p_out.res.ok
                  /\ p_out.res.start = p_total - n
                  /\ p_out.res.end = p_total - 1

\* C6: the parser returns (start, end) with 0 <= start <= end < totalSize,
\* an omitted start being 0 and an omitted end totalSize - 1, exactly for
\* the headers bytes=<start>-<end> with integer bounds inside the object,
\* and rejects every other header; the examples of the specification.
C6_ParseContract ==
    /\ p_out.pc = "returned" =>
         /\ p_out.res.ok <=> (WellFormed(p_header) /\ InBounds(BoundsOf(p_header, p_total), p_total))
         /\ p_out.res.ok =>
               /\ <<p_out.res.start, p_out.res.end>> = BoundsOf(p_header, p_total)
               /\ 0 <= p_out.res.start
               /\ p_out.res.start <= p_out.res.end
               /\ p_out.res.end < p_total
    /\ LET r == parse_range_header(<<"bytes", "=", "0", "-", "9", "9">>, 1000)
       IN  r.ok /\ r.start = 0 /\ r.end = 99
    /\ LET r == parse_range_header(<<"bytes", "=", "5", "0", "0", "-">>, 1000)
       IN  r.ok /\ r.start = 500 /\ r.end = 999
    /\ ~parse_range_header(<<"bytes", "=", "0", "-", "1", "0", "0", "0">>, 1000).ok
    /\ ~parse_range_header(<<"bytes", "=", "a", "b", "c">>, 1000).ok

\* a call returned an open range bytes=<start>- inside the object, and a
\* call rejected a range that ends at totalSize
C6_Witness ==
    /\ p_out.pc = "returned"
    /\ p_header = <<"bytes", "=", "1", "-">>
    /\ p_total = 3
    /\ p_out.res.ok /\ p_out.res.start = 1 /\ p_out.res.end = 2

\* ------------------------------------------------------------------------
\* Properties of the handler's range and size handling (Spec)
\* ------------------------------------------------------------------------
\* the request passed the lookup and the size resolution
PastResolve(r) ==
    r.pc \in {"range", "fetch", "relay"} \/ (r.pc = "done" /\ r.result \notin {404, 410})

\* the request passed the range evaluation or was rejected by it
PastRange(r) ==
    r.pc \in {"fetch", "relay"} \/ (r.pc = "done" /\ r.result \notin {404, 410})

\* the number a header value of decimal digits denotes, None otherwise
HeaderInt(s) == IF IsDigitStr(s) THEN Weighted(s, 1) ELSE None

\* C3: a malformed or multi-range Range header on a known-size object is
\* treated as no Range: status 200, Content-Length = total, no Range
\* forwarded upstream, no error status.
C3_MalformedFallsBack ==
    \A w \in Workers :
      LET r == req[w] IN
      (PastRange(r) /\ r.total_size # None /\ r.range_header # << >>
                    /\ ~WellFormed(r.range_header))
          => /\ r.result # 416
             /\ r.status_code = 200
             /\ r.fwd_range = << >>
             /\ HeaderInt(r.content_length) = r.total_size

\* C4: on a known-size object a well-formed Range that is out of bounds
\* ends in 416, never in a full-content 200, and the 416 tells it from a
\* malformed header: 416 is answered for well-formed headers only.
C4_OutOfBoundsDistinct ==
    \A w \in Workers :
      LET r == req[w] IN
      (PastRange(r) /\ r.total_size # None /\ r.range_header # << >>)
          => /\ (WellFormed(r.range_header)
                   /\ ~InBounds(BoundsOf(r.range_header, r.total_size), r.total_size))
                 => (r.pc = "done" /\ r.result = 416)
             /\ r.result = 416 => WellFormed(r.range_header)

\* the three numbers of a Content-Range value bytes <a>-<b>/<c>
ContentRangeInts(cr) ==
    IF Len(cr) >= 2 /\ cr[1] = "bytes" /\ cr[2] = " "
       /\ IndexOf(cr, "-") # 0 /\ IndexOf(cr, "/") > IndexOf(cr, "-")
    THEN <<HeaderInt(SubSeq(cr, 3, IndexOf(cr, "-") - 1)),
           HeaderInt(SubSeq(cr, IndexOf(cr, "-") + 1, IndexOf(cr, "/") - 1)),
           HeaderInt(Drop(cr, IndexOf(cr, "/") + 1))>>
    ELSE <<None, None, None>>

\* the two numbers of a Range value bytes=<a>-<b>
RangeInts(rg) ==
    IF Len(rg) >= 2 /\ rg[1] = "bytes" /\ rg[2] = "=" /\ IndexOf(rg, "-") # 0
    THEN <<HeaderInt(SubSeq(rg, 3, IndexOf(rg, "-") - 1)), HeaderInt(Drop(rg, IndexOf(rg, "-") + 1))>>
    ELSE <<None, None>>

\* C7: a 206 answer carries Content-Range bytes start-end/T and
\* Content-Length end - start + 1 and forwards bytes=start-end upstream;
\* 206 is chosen only with a Range header, a known size and a range the
\* parser accepted.
C7_PartialContent ==
    \A w \in Workers :
      LET r == req[w] IN
      /\ r.result = 206 => (r.status_code = 206 /\ r.up_status \in {200, 206})
      /\ r.status_code = 206 =>
            /\ r.range_header # << >>
            /\ r.total_size # None
            /\ WellFormed(r.range_header)
            /\ <<r.start, r.end>> = BoundsOf(r.range_header, r.total_size)
            /\ InBounds(<<r.start, r.end>>, r.total_size)
            /\ ContentRangeInts(r.content_range) = <<r.start, r.end, r.total_size>>
            /\ HeaderInt(r.content_length) = r.end - r.start + 1
            /\ RangeInts(r.fwd_range) = <<r.start, r.end>>

\* a 206 answer to an open range was relayed to the end
C7_Witness ==
    \E w \in Workers :
      /\ req[w].result = 206
      /\ req[w].relay = "complete"
      /\ req[w].range_header = <<"bytes", "=", "1", "-">>

\* C8: the body relayed under a 206 answer is bytes start..end of the
\* upstream object, as many bytes as Content-Length says, for upstream
\* status 200 as for 206.
C8_BodyIsRange ==
    \A w \in Workers :
      LET r == req[w] IN
      (r.result = 206 /\ r.relay = "complete")
          => /\ r.sent = Slice(Content(r.row[1].file_path), r.start, r.end)
             /\ Len(r.sent) = HeaderInt(r.content_length)

\* the size probe of the request failed: HEAD raised, answered a non-OK
\* status, or carried no Content-Length
ProbeFailed(r) == r.probes = 1 /\ (r.head.raised \/ ~r.head.ok \/ r.head.cl = << >>)

\* C9: without a declared size and with a failed probe, every request,
\* whatever its Range header, is answered 200 without Content-Length and
\* Content-Range, forwards no Range and relays the upstream bytes in order
\* and unmodified.
C9_UnknownSize ==
    \A w \in Workers :
      LET r == req[w] IN
      (r.row # << >> /\ r.row[1].file_size = None /\ ProbeFailed(r))
          => /\ r.result \notin {206, 416}
             /\ r.pc \in {"fetch", "relay", "done"} =>
                   /\ r.status_code = 200
                   /\ r.content_length = << >>
                   /\ r.content_range = << >>
                   /\ r.fwd_range = << >>
             /\ (r.gets = 1 /\ r.up_status = 200) => r.result = 200
             /\ r.relay # "none" => r.sent \o r.up_body = Content(r.row[1].file_path)
             /\ r.relay = "complete" => r.sent = Content(r.row[1].file_path)

\* a request with a Range header, whose probe raised, was answered 200
\* and relayed to the end
C9_Witness ==
    \E w \in Workers :
      /\ ProbeFailed(req[w]) /\ req[w].head.raised
      /\ req[w].range_header = <<"bytes", "=", "0", "-", "0">>
      /\ req[w].result = 200
      /\ req[w].relay = "complete"

\* C10: with a declared size (0 included) no probe is made and the total
\* reported is the declared size, in Content-Length, in Content-Range and
\* in the range validation; a probe is made only without a declared size
\* and no row's size is ever rewritten.
C10_DeclaredSize ==
    /\ \A w \in Workers :
         LET r == req[w] IN
         (r.row # << >> /\ PastResolve(r)) =>
           LET d == r.row[1].file_size IN
           /\ r.probes > 0 => d = None
           /\ d # None =>
                 /\ r.probes = 0
                 /\ r.total_size = d
                 /\ (PastRange(r) /\ r.status_code = 200) => HeaderInt(r.content_length) = d
                 /\ r.status_code = 206 =>
                       (ContentRangeInts(r.content_range)[3] = d /\ r.end < d)
                 /\ (PastRange(r) /\ r.range_header # << >>) =>
                       (r.result = 416 <=>
                          ~(WellFormed(r.range_header)
                            /\ InBounds(BoundsOf(r.range_header, d), d)))
    /\ \A k \in Tokens :
         links[k] # << >> =>
           \E u \in Uploads : /\ u.file_id = links[k][1].file_id
                               /\ u.file_size = links[k][1].file_size

\* a file of declared size 0 was served without a probe, Content-Length 0
C10_Witness ==
    \E w \in Workers :
      /\ req[w].row # << >> /\ req[w].row[1].file_size = 0
      /\ req[w].probes = 0
      /\ req[w].result = 200
      /\ req[w].content_length = <<"0">>
      /\ req[w].relay = "complete"

\* ------------------------------------------------------------------------
\* Properties of expiry under concurrent requests and sweeps (SpecRace)
\* ------------------------------------------------------------------------
\* now - createdAt <= TTL, at time t
Live(t, created_at) == t - created_at * TicksPerSecond <= TTL * TicksPerSecond

\* the token was inserted once
IssuedOnce(k) == Cardinality({q \in inserted : q[1] = k}) = 1

\* the outcomes of C1 in every state
C1_Outcomes ==
    \A w \in Workers :
      LET r == req[w] IN
      /\ (r.pc # "idle" /\ r.row = << >>) => (r.pc = "done" /\ r.result = 404)
      /\ (r.row # << >> /\ r.late) =>
            /\ r.pc \in {"check", "expired", "done"}
            /\ r.pc = "done" => r.result = 410
      /\ r.result \in {200, 206} => (r.row # << >> /\ ~r.late)
      /\ (r.pc = "done" /\ r.result = 410) => ~InStore(r.token, r.row[1].created_at)
      /\ (r.pc = "done" /\ r.result = 404) =>
            \A c \in r.seen : ~Live(now, c) => ~InStore(r.token, c)

\* an expired row that is absent stays absent; the step of a request that
\* holds an expired row is the expiry check and then the deletion with 410
C1_Steps ==
    /\ \A q \in inserted :
         (~Live(now, q[2]) /\ ~InStore(q[1], q[2])) => ~InStore(q[1], q[2])'
    /\ \A w \in Workers :
         (req[w].late /\ req'[w] # req[w]) =>
            /\ req[w].pc = "check" => req'[w].pc = "expired"
            /\ req[w].pc = "expired" =>
                  /\ req'[w].pc = "done" /\ req'[w].result = 410
                  /\ links'[req[w].token] = << >>

C2_Reachable ==
    /\ \A q \in inserted :
         (IssuedOnce(q[1]) /\ Live(now, q[2])) => InStore(q[1], q[2])
    /\ \A w \in Workers :
         (req[w].pc = "done" /\ req[w].result = 404 /\ Cardinality(req[w].seen) = 1)
             => \A c \in req[w].seen : ~Live(now, c)

\* the expiry check of the handler and the deletions of the sweeper
C2_Decides ==
    /\ \A w \in Workers :
         (req[w].pc = "check" /\ req'[w].pc # "check") =>
             /\ req'[w].pc \in {"resolve", "expired"}
             /\ req'[w].pc = "resolve" <=> Live(now, req[w].row[1].created_at)
    /\ req' = req =>
         \A k \in Tokens :
           (links[k] # << >> /\ links'[k] = << >>) => ~Live(now, links[k][1].created_at)

GetReturned(r) == r.gets = 1 /\ r.up_status # 0

\* the upstream GET of the request raised
GetRaised(r) == r.gets = 1 /\ r.up_status = 0

\* C11: when the upstream GET returns a status outside {200, 206} no body
\* is relayed and the client gets an error status, the same status for a
\* 4xx or 5xx and 502 for every other, never 200 or 206.
C11_UpstreamRejected ==
    \A w \in Workers :
      LET r == req[w] IN
      (GetReturned(r) /\ r.up_status \notin {200, 206})
          => /\ r.pc = "done"
             /\ r.relay = "none" /\ r.sent = << >>
             /\ r.result \notin {200, 206}
             /\ r.result >= 400
             /\ (r.up_status \in 400..599) => r.result = r.up_status
             /\ (r.up_status \notin 400..599) => r.result = 502

\* a ranged request whose upstream answered 302 ended in 502
C11_Witness ==
    \E w \in Workers :
      /\ req[w].up_status = 302
      /\ req[w].status_code = 206
      /\ req[w].result = 502

\* C12: when the upstream GET raises (connection error, timeout) the
\* request ends in an upstream-failure status of the 502 class, and a
\* request issues at most one upstream GET.
C12_NetworkFailure ==
    \A w \in Workers :
      LET r == req[w] IN
      /\ r.gets <= 1
      /\ GetRaised(r) => (r.pc = "done" /\ r.result \in {502, 503, 504})

\* C13: the upstream connection a request opened is closed when the
\* request is over, whether the relay completed, was aborted, was dropped
\* before it began, or the upstream answered a status other than 200, 206.
C13_ConnectionReleased ==
    \A w \in Workers :
      (req[w].pc = "done" /\ req[w].gets = 1) => req[w].conn # "open"

\* the text s carries the upstream credential
Leaks(s) == \E i \in 1..Len(s) : s[i] = BOT_TOKEN

\* C14: no log line and nothing the client sees (detail, response
\* headers) carries the bot token or the upstream URL built from it.
C14_NoCredentialLeak ==
    \A w \in Workers :
      LET r == req[w] IN
      /\ \A line \in r.log : ~Leaks(line)
      /\ r.detail # BOT_TOKEN
      /\ r.content_type # BOT_TOKEN
      /\ ~Leaks(r.content_disposition)
      /\ ~Leaks(r.content_range)
      /\ ~Leaks(r.content_length)

\* ------------------------------------------------------------------------
\* Properties of the store under its three kinds of thread (SpecStore)
\* ------------------------------------------------------------------------
\* the step is the DELETE of a sweep
IsSweepDelete == sweeper # "executed" /\ sweeper' = "executed"

\* the sweep with cutoff T, stated record by record
C15_SweepStep ==
    IsSweepDelete =>
      LET T == Cutoff(now) IN
      /\ \A k \in Tokens :
           links'[k] = IF links[k] # << >> /\ links[k][1].created_at < T
                       THEN << >> ELSE links[k]
      /\ cleanup_expired_links(links', T) = links'

\* C15: a sweep with cutoff T removes exactly the records with
\* createdAt < T and leaves every other record present and unchanged; a
\* second sweep with the same cutoff right after it removes nothing.
C15_SweepExact == [][C15_SweepStep]_vars

\* a sweep removed the record of one token and kept the record of the
\* other, which was created at the cutoff or later
C15_Witness ==
    /\ sweeper = "executed"
    /\ req["w1"].pc # "deleting"
    /\ \E k, j \in Tokens :
         /\ committed[k] # << >> /\ links[k] = << >>
         /\ links[j] # << >> /\ links[j][1].created_at >= Cutoff(now)

\* the step belongs to a sweep run that fails: the DELETE raises, the
\* transaction is rolled back
IsFailedSweep == sweeper' # sweeper /\ sweeper' \in {"raised", "failed"}

\* a failed run is caught and changes nothing in the store
C16_FailedRun ==
    IsFailedSweep => (links' = links /\ committed' = committed)

\* C16: a sweep run that fails does not end the sweeper: after every run,
\* failed or not, the sleep and then another run follow, and a failed run
\* leaves the store as it was before the run.
C16_SweeperSurvives ==
    /\ [](sweeper \in {"start", "executed", "raised", "ran", "failed", "slept"})
    /\ [][C16_FailedRun]_vars
    /\ [](sweeper \in {"ran", "failed"} => <>(sweeper = "slept"))
    /\ [](sweeper = "slept" => <>(sweeper \in {"executed", "raised"}))

\* the record create_link inserts for a call <<token, created_at, file_id>>
AsInserted(q) ==
    LET u == CHOOSE u \in Uploads : u.file_id = q[3]
    IN  [token |-> q[1], file_id |-> u.file_id, file_path |-> u.file_path,
         mime |-> u.mime, file_name |-> u.file_name, file_size |-> u.file_size,
         created_at |-> q[2]]

\* rows holds nothing, or one complete record inserted under token k
WholeOrNone(rows, k) ==
    \/ rows = << >>
    \/ \E q \in inserted : q[1] = k /\ rows = <<AsInserted(q)>>

\* the step ends the transaction of the connection: a commit, a rollback
IsCommit   == committed' # committed
IsRollback == \/ (ingest.pc = "raised" /\ ingest'.pc = "idle")
              \/ (sweeper = "raised" /\ sweeper' = "failed")

\* whichever thread ends the transaction, every statement executed since
\* the last commit is applied whole (what the connection shows becomes
\* what is committed) or not at all (what is committed is shown again)
C17_WholeSteps ==
    /\ IsCommit => (committed' = links /\ links' = links)
    /\ IsRollback => (links' = committed /\ committed' = committed)
    /\ \A w \in Workers :
         (req[w].pc = "idle" /\ req'[w].pc # "idle")
             => req'[w].row = links[req'[w].token]

\* C17: on the one shared connection, without a lock, a lookup that races
\* a sweep, a lazy delete or an insert returns the complete record as
\* inserted or no record, and every insert and delete is applied whole or
\* not at all, whichever thread's commit or rollback ends the transaction.
C17_NoPartialRecord ==
    /\ [](\A k \in Tokens : WholeOrNone(links[k], k) /\ WholeOrNone(committed[k], k))
    /\ [](\A w \in Workers : WholeOrNone(req[w].row, req[w].token))
    /\ [][C17_WholeSteps]_vars

\* a lookup found the complete record of an insert that was executed and
\* not yet committed, and the sweeper rolled the transaction back under it
C17_Witness ==
    /\ req["w1"].row # << >>
    /\ req["w1"].pc = "check"
    /\ links[req["w1"].token] = << >>
    /\ committed[req["w1"].token] = << >>
    /\ sweeper = "failed"

\* the step is a create_link that fails: the INSERT raises, the
\* transaction is rolled back, the IntegrityError leaves create_link
IsFailedInsert == ingest' # ingest /\ (ingest'.pc = "raised" \/ ingest.pc = "raised")

\* a failed insert is an insert of a token that has a record; it returns
\* no token and changes nothing in the store
C18_FailedInsert ==
    /\ (ingest.pc = "idle" /\ ingest'.pc = "raised") => links[ingest'.token] # << >>
    /\ (ingest.pc = "idle" /\ ingest'.pc = "executed") => links[ingest'.token] = << >>
    /\ (ingest.pc = "raised" /\ ingest'.pc = "idle") =>
           (ingest'.outcome = "IntegrityError" /\ ingest'.token = "")
    /\ IsFailedInsert => (links' = links /\ committed' = committed)

\* C18: each token identifies at most one record; an insert whose token
\* exists fails with an error, returns no token and leaves that record and
\* the rest of the store unchanged.
C18_TokenUnique ==
    /\ [](\A k \in Tokens : Len(links[k]) <= 1 /\ Len(committed[k]) <= 1)
    /\ [][C18_FailedInsert]_vars

\* ------------------------------------------------------------------------
\* Properties of the frame and the order of a request (Spec)
\* ------------------------------------------------------------------------
\* what a step may do to the store
C19_Frame ==
    /\ \A k \in Tokens :
         (links[k] # << >> /\ links'[k] # << >>) => links'[k] = links[k]
    /\ \A w \in Workers :
         /\ (req'[w] # req[w] /\ req[w].pc # "expired") => links' = links
         /\ (req'[w] # req[w] /\ req[w].pc = "expired") =>
               \A k \in Tokens :
                 links'[k] # links[k] => (k = req[w].token /\ links'[k] = << >>)
         /\ (req[w].pc = "idle" /\ req'[w].pc # "idle") =>
               req'[w].row = links[req'[w].token]

\* what the store and a lookup hold
C19_RoundTrip ==
    /\ \A k \in Tokens : WholeOrNone(links[k], k)
    /\ \A w \in Workers : WholeOrNone(req[w].row, req[w].token)
    /\ \A q \in inserted :
         (IssuedOnce(q[1]) /\ Live(now, q[2])) => links[q[1]] = <<AsInserted(q)>>

Stage(r) ==
    CASE r.pc = "idle"    -> 0
      [] r.pc = "check"   -> 1
      [] r.pc = "expired" -> 1
      [] r.pc = "resolve" -> 2
      [] r.pc = "range"   -> 3
      [] r.pc = "fetch"   -> 4
      [] r.pc = "relay"   -> 5
      [] r.pc = "done"    -> 6

\* the upstream requests a request has made at each position
C20_Upstream ==
    \A w \in Workers :
      LET r == req[w] IN
      /\ r.probes <= 1 /\ r.gets <= 1
      /\ Stage(r) <= 2 => (r.probes = 0 /\ r.gets = 0)
      /\ Stage(r) <= 4 => r.gets = 0
      /\ r.detail \in {"Link not found", "Link expired"} => (r.probes = 0 /\ r.gets = 0)
      /\ r.detail = "Invalid Range" => r.gets = 0
      /\ r.pc = "relay" => (r.gets = 1 /\ r.up_status \in {200, 206})
      /\ r.pc = "done" =>
            \/ r.result = 404 /\ r.detail = "Link not found" /\ r.row = << >>
            \/ r.result = 410 /\ r.detail = "Link expired"
            \/ r.result = 416 /\ r.detail = "Invalid Range"
            \/ r.gets = 1 /\ r.relay = "none" /\ r.result >= 400
            \/ r.gets = 1 /\ r.relay \in {"complete", "aborted", "dropped"}

\* a request that is under way can take a step: each upstream call
\* returns or raises, the client reads the body or goes away
C20_NeverStuck ==
    \A w \in {"w1"} :
      /\ req[w].pc = "check"   => ENABLED CheckExpiry(w)
      /\ req[w].pc = "expired" => ENABLED DeleteExpired(w)
      /\ req[w].pc = "resolve" => ENABLED ResolveSize(w)
      /\ req[w].pc = "range"   => ENABLED EvalRange(w)
      /\ req[w].pc = "fetch"   => ENABLED (UpstreamGet(w) \/ UpstreamGetRaises(w))
      /\ req[w].pc = "relay"   => ENABLED (RelayChunk(w) \/ RelayEnd(w))
      /\ req[w].pc \in {"idle", "check", "expired", "resolve", "range", "fetch", "relay", "done"}

\* the steps of a request go forward through the positions: a step moves
\* to a later position, or from the expiry check to the deletion, or
\* shortens what is left of the upstream body
C20_Forward ==
    \A w \in Workers :
      (req'[w] # req[w] /\ req[w].pc # "done") =>
         /\ Stage(req'[w]) >= Stage(req[w])
         /\ Stage(req'[w]) = Stage(req[w]) =>
               \/ req[w].pc = "check" /\ req'[w].pc = "expired"
               \/ req[w].pc = "relay" /\ Len(req'[w].up_body) < Len(req[w].up_body)
         /\ req[w].pc = "idle"    => (req'[w].pc = "check" \/ req'[w].detail = "Link not found")
         /\ req[w].pc = "check"   => req'[w].pc \in {"expired", "resolve"}
         /\ req[w].pc = "expired" => req'[w].detail = "Link expired"
         /\ req[w].pc = "resolve" => req'[w].pc = "range"
         /\ req[w].pc = "range"   => (req'[w].pc = "fetch" \/ req'[w].detail = "Invalid Range")
         /\ req[w].pc = "fetch"   => req'[w].pc \in {"relay", "done"}
         /\ req[w].pc = "relay"   => req'[w].pc \in {"relay", "done"}

\* C20: a request goes through lookup, size resolution, range evaluation,
\* upstream fetch and relay in this order; no probe and no GET is made for
\* an unknown or expired token, no GET for a request rejected with 416, at
\* most one probe and one GET per request, and every request reaches a
\* terminal outcome: it is never stuck and each of its steps goes forward.
C20_RequestOrder ==
    /\ []C20_Upstream
    /\ []C20_NeverStuck
    /\ [][C20_Forward]_vars

\* a request without a declared size made one probe and one GET and its
\* relay came to the end
C20_Witness ==
    /\ req["w1"].pc = "done"
    /\ req["w1"].probes = 1 /\ req["w1"].gets = 1
    /\ req["w1"].relay = "complete"

====
